---------------------------- MODULE Spec2Model ----------------------------
(***************************************************************************)
(* Model of the regular-expression parser of src/src/engine/parser.rs.     *)
(*                                                                         *)
(* parse(expr) is a single left-to-right scan over the characters of expr. *)
(* The model runs that scan one character per step: a behaviour starts     *)
(* with a pattern expr and the locals of parse as they are before the loop *)
(* (seq, seq_or, stack empty, state = Char), every step executes one match *)
(* arm of the loop body on the character at offset i, and the last step    *)
(* executes the code after the loop.  A `return Err(..)` or the `?`        *)
(* operator ends the scan at once with the error as the result.            *)
(*                                                                         *)
(* A pattern is a sequence of one-character strings; an AST node is a      *)
(* tuple whose first element is the variant's name.                        *)
(***************************************************************************)
EXTENDS Integers, Sequences, FiniteSets, TLC

\* Longest pattern that is enumerated exhaustively over Alphabet.
MaxLen == 5

\* The eight characters parse and parse_escape treat specially.
MetaChars == {"\\", "(", ")", "|", ".", "+", "*", "?"}

\* Ordinary characters used in the exhaustively enumerated patterns.
Literals == {"a", "b"}

Alphabet == MetaChars \cup Literals

\* Longer patterns, taken from the documentation of the parser.
ExamplePatterns ==
    { <<"a", "|", "b", "|", "c", "|", "d">>,
      <<"a", "b", "c", "|", "d", "e", "f", "|", "g", "h", "i">>,
      <<"(", "|", "a", "b", "c", ")">>,
      <<"(", "a", "|", "b", "|", "c", ")">>,
      <<"a", "b", "c", "d", "e", "f", "g">>,
      <<"a", "(", "b", "|", "c", ")", "d">>,
      <<"(", "(", ")", ")", "(", ")">>,
      <<"(", "(", "(", ")", ")", ")">>,
      <<"(", ")", "(", ")", "(", ")">> }

BoundedPatterns == UNION { [1..n -> Alphabet] : n \in 0..MaxLen }

Patterns == BoundedPatterns \cup ExamplePatterns

---------------------------------------------------------------------------
\* enum AST

AST_Char(c) == <<"Char", c>>

AST_Dot == <<"Dot">>

AST_Plus(e) == <<"Plus", e>>

AST_Star(e) == <<"Star", e>>

AST_Question(e) == <<"Question", e>>

AST_Or(l, r) == <<"Or", l, r>>

AST_Seq(v) == <<"Seq", v>>

\* enum ParseError, as the Err side of a Result

InvalidEscape(pos, c) == <<"Err", "InvalidEscape", pos, c>>

InvalidRightParen(pos) == <<"Err", "InvalidRightParen", pos>>

NoPrev(pos) == <<"Err", "NoPrev", pos>>

NoRightParen == <<"Err", "NoRightParen">>

Empty == <<"Err", "Empty">>

Ok(v) == <<"Ok", v>>

\* Option<AST>

None == <<"None">>

Some(v) == <<"Some", v>>

\* parse has not returned yet
Pending == <<"Pending">>

IsOk(r) == r[1] = "Ok"

IsErr(r) == r[1] = "Err"

---------------------------------------------------------------------------
\* Vec helpers

Last(s) == s[Len(s)]

Front(s) == SubSeq(s, 1, Len(s) - 1)

Reverse(s) == [k \in 1..Len(s) |-> s[Len(s) + 1 - k]]

---------------------------------------------------------------------------
\* Mutant: '*' is missing from the list of characters that may be escaped.
parse_escape_NoStar(pos, c) ==
    IF c \in {"\\", "(", ")", "|", ".", "+", "?"}
    THEN Ok(AST_Char(c))
    ELSE InvalidEscape(pos, c)

\* Mutant: the error carries the offset of the backslash.
parse_escape_BackslashPos(pos, c) ==
    IF c \in {"\\", "(", ")", "|", ".", "+", "*", "?"}
    THEN Ok(AST_Char(c))
    ELSE InvalidEscape(pos - 1, c)

\* fn parse_escape(pos, c) -> Result<AST, ParseError>
parse_escape(pos, c) ==
    IF c \in {"\\", "(", ")", "|", ".", "+", "*", "?"}
    THEN Ok(AST_Char(c))
    ELSE InvalidEscape(pos, c)

\* enum PSQ
PSQ == {"Plus", "Star", "Question"}

\* The match on ast_type in parse_dot_plus_star_question.
WrapPSQ(ast_type, prev) ==
    CASE ast_type = "Plus" -> AST_Plus(prev)
      [] ast_type = "Star" -> AST_Star(prev)
      [] ast_type = "Question" -> AST_Question(prev)

\* Mutant: an operator without operand is dropped instead of being an error.
parse_dot_plus_star_question_Lenient(s, ast_type, pos) ==
    IF Len(s) > 0
    THEN Ok(Append(Front(s), WrapPSQ(ast_type, Last(s))))
    ELSE Ok(s)

\* Mutant: the operator wraps the whole sequence, not its last element.
parse_dot_plus_star_question_WrapAll(s, ast_type, pos) ==
    IF Len(s) > 0
    THEN Ok(<<WrapPSQ(ast_type, AST_Seq(s))>>)
    ELSE NoPrev(pos)

\* fn parse_dot_plus_star_question(seq, ast_type, pos) -> Result<(), ParseError>
\* The Ok side carries seq as the call leaves it.
parse_dot_plus_star_question(s, ast_type, pos) ==
    IF Len(s) > 0
    THEN Ok(Append(Front(s), WrapPSQ(ast_type, Last(s))))
    ELSE NoPrev(pos)

\* The for loop of fold_or: ast = Or(s, ast) for each s of the reversed rest.
RECURSIVE FoldOrLoop(_, _)
FoldOrLoop(rest, ast) ==
    IF rest = <<>>
    THEN ast
    ELSE FoldOrLoop(Tail(rest), AST_Or(Head(rest), ast))

\* Mutant: the rest is not reversed before the loop.
fold_or_NoReverse(s) ==
    IF Len(s) > 1
    THEN Some(FoldOrLoop(Front(s), Last(s)))
    ELSE IF Len(s) = 1 THEN Some(s[1]) ELSE None

\* fn fold_or(seq_or) -> Option<AST>
fold_or(s) ==
    IF Len(s) > 1
    THEN Some(FoldOrLoop(Reverse(Front(s)), Last(s)))
    ELSE IF Len(s) = 1 THEN Some(s[1]) ELSE None

---------------------------------------------------------------------------
\* The arithmetic guard of src/src/helper.rs and Generator::inc_pc of
\* src/src/engine/codegen.rs.

\* Width of usize in bits, scaled down.
UsizeBits == 4

\* usize::MAX
UsizeMax == 2 ^ UsizeBits - 1

Usize == 0..UsizeMax

\* Result::Err of a call that returns a code generation or caller's error
Err(e) == <<"Err", e>>

\* CodeGenError::PCOverFlow
PCOverFlow == "PCOverFlow"

\* The error a caller of safe_add other than inc_pc builds with its closure f.
Overflow == "Overflow"

\* Mutant: wrapping_add in place of checked_add.
usize_safe_add_Wrapping(a, n) == Some((a + n) % (UsizeMax + 1))

\* impl SafeAdd for usize: self.checked_add(*n)
usize_safe_add(a, n) == IF a + n > UsizeMax THEN None ELSE Some(a + n)

\* fn safe_add(dst, src, f) -> Result<(), E>: the pair of dst as the call
\* leaves it and the value returned; f is the error the closure builds.
safe_add(d, s, f) ==
    LET n == usize_safe_add(d, s) IN
    IF n[1] = "Some" THEN <<n[2], Ok(<<>>)>> ELSE <<d, Err(f)>>

---------------------------------------------------------------------------
\* The locals of parse.
VARIABLES
    expr,     \* the pattern
    i,        \* 0-based offset of the next character of expr
    seq,      \* the current sequence
    seq_or,   \* the alternatives of the current nesting level
    stack,    \* saved (seq, seq_or) pairs, innermost last
    state,    \* ParseState: "Char" or "Escape"
    pc,       \* "scan" inside the loop and after it, "done" once parse returned
    result    \* what parse returned, Pending before

\* The counters of the arithmetic guard and of the code generator.
VARIABLES
    dst,      \* the counter a caller hands to safe_add as &mut dst
    src,      \* the amount of the last call of safe_add
    ret,      \* what the last call of safe_add returned, Pending before
    gen_pc,   \* Generator::pc
    gen_ret   \* what the last call of inc_pc returned, Pending before

parse_vars == <<expr, i, seq, seq_or, stack, state, pc, result>>

gen_vars == <<dst, src, ret, gen_pc, gen_ret>>

vars == <<parse_vars, gen_vars>>

\* No counter is in use: Generator::default() and no call of safe_add.
GenIdle ==
    /\ dst = 0
    /\ src = 0
    /\ ret = Pending
    /\ gen_pc = 0
    /\ gen_ret = Pending

Init ==
    /\ expr \in Patterns
    /\ i = 0
    /\ seq = <<>>
    /\ seq_or = <<>>
    /\ stack = <<>>
    /\ state = "Char"
    /\ pc = "scan"
    /\ result = Pending
    /\ GenIdle

\* The character the loop is about to read, c of (i, c).
c == expr[i + 1]

InLoop == pc = "scan" /\ i < Len(expr)

AtChar(ch) == InLoop /\ state = "Char" /\ c = ch

\* return Err(e), also through `?`
Return(r) ==
    /\ result' = r
    /\ pc' = "done"
    /\ UNCHANGED gen_vars

\* End of one iteration that did not return.
Continue ==
    /\ i' = i + 1
    /\ UNCHANGED <<expr, pc, result>>
    /\ UNCHANGED gen_vars

\* '+' | '*' | '?' => parse_dot_plus_star_question(&mut seq, .., i)?
ReadPSQ(ch, ast_type) ==
    /\ AtChar(ch)
    /\ LET r == parse_dot_plus_star_question(seq, ast_type, i) IN
       IF IsOk(r)
       THEN /\ seq' = r[2]
            /\ Continue
            /\ UNCHANGED <<seq_or, stack, state>>
       ELSE /\ Return(r)
            /\ UNCHANGED <<expr, i, seq, seq_or, stack, state>>

ReadPlus == ReadPSQ("+", "Plus")

ReadStar == ReadPSQ("*", "Star")

ReadQuestion == ReadPSQ("?", "Question")

\* Mutant: the alternatives of the enclosing level stay current.
ReadLeftParen_KeepSeqOr ==
    /\ AtChar("(")
    /\ stack' = Append(stack, <<seq, seq_or>>)
    /\ seq' = <<>>
    /\ Continue
    /\ UNCHANGED <<seq_or, state>>

\* '(' => push the current context, empty the current context
ReadLeftParen ==
    /\ AtChar("(")
    /\ stack' = Append(stack, <<seq, seq_or>>)
    /\ seq' = <<>>
    /\ seq_or' = <<>>
    /\ Continue
    /\ UNCHANGED state

\* Mutant: seq is pushed even when it is empty.
PushSeq_Always(s, so) == Append(so, AST_Seq(s))

\* Mutant: an empty group leaves an empty Seq in the enclosing sequence.
PushFolded_EmptyGroupNode(prev, folded) ==
    IF folded[1] = "Some" THEN Append(prev, folded[2]) ELSE Append(prev, AST_Seq(<<>>))

\* The alternatives handed to fold_or: seq_or, with seq pushed as a Seq
\* unless seq is empty.
PushSeq(s, so) == IF s # <<>> THEN Append(so, AST_Seq(s)) ELSE so

\* prev with the folded group pushed, if fold_or yields a node.
PushFolded(prev, folded) ==
    IF folded[1] = "Some" THEN Append(prev, folded[2]) ELSE prev

\* Mutant: a ')' without '(' is skipped.
ReadRightParen_Lenient ==
    /\ AtChar(")")
    /\ IF Len(stack) > 0
       THEN LET prev == Last(stack)[1]
                prev_or == Last(stack)[2]
            IN /\ stack' = Front(stack)
               /\ seq' = PushFolded(prev, fold_or(PushSeq(seq, seq_or)))
               /\ seq_or' = prev_or
               /\ Continue
               /\ UNCHANGED state
       ELSE /\ Continue
            /\ UNCHANGED <<seq, seq_or, stack, state>>

\* ')' => pop the context, fold the group, or InvalidRightParen
ReadRightParen ==
    /\ AtChar(")")
    /\ IF Len(stack) > 0
       THEN LET prev == Last(stack)[1]
                prev_or == Last(stack)[2]
            IN /\ stack' = Front(stack)
               /\ seq' = PushFolded(prev, fold_or(PushSeq(seq, seq_or)))
               /\ seq_or' = prev_or
               /\ Continue
               /\ UNCHANGED state
       ELSE /\ Return(InvalidRightParen(i))
            /\ UNCHANGED <<expr, i, seq, seq_or, stack, state>>

\* '|' => NoPrev on an empty seq, else move seq into seq_or
ReadBar ==
    /\ AtChar("|")
    /\ IF seq = <<>>
       THEN /\ Return(NoPrev(i))
            /\ UNCHANGED <<expr, i, seq, seq_or, stack, state>>
       ELSE /\ seq_or' = Append(seq_or, AST_Seq(seq))
            /\ seq' = <<>>
            /\ Continue
            /\ UNCHANGED <<stack, state>>

\* '\\' => state = ParseState::Escape
ReadBackslash ==
    /\ AtChar("\\")
    /\ state' = "Escape"
    /\ Continue
    /\ UNCHANGED <<seq, seq_or, stack>>

\* '.' => seq.push(AST::Dot)
ReadDot ==
    /\ AtChar(".")
    /\ seq' = Append(seq, AST_Dot)
    /\ Continue
    /\ UNCHANGED <<seq_or, stack, state>>

\* Mutant: the character is inserted at the front of seq.
ReadLiteral_Prepend ==
    /\ InLoop
    /\ state = "Char"
    /\ c \notin {"+", "*", "?", "(", ")", "|", "\\", "."}
    /\ seq' = <<AST_Char(c)>> \o seq
    /\ Continue
    /\ UNCHANGED <<seq_or, stack, state>>

\* _ => seq.push(AST::Char(c))
ReadLiteral ==
    /\ InLoop
    /\ state = "Char"
    /\ c \notin {"+", "*", "?", "(", ")", "|", "\\", "."}
    /\ seq' = Append(seq, AST_Char(c))
    /\ Continue
    /\ UNCHANGED <<seq_or, stack, state>>

\* ParseState::Escape => parse_escape(i, c)?, push, back to ParseState::Char
ReadEscaped ==
    /\ InLoop
    /\ state = "Escape"
    /\ LET r == parse_escape(i, c) IN
       IF IsOk(r)
       THEN /\ seq' = Append(seq, r[2])
            /\ state' = "Char"
            /\ Continue
            /\ UNCHANGED <<seq_or, stack>>
       ELSE /\ Return(r)
            /\ UNCHANGED <<expr, i, seq, seq_or, stack, state>>

\* Mutant: a pattern without content yields an empty Seq.
EndResult_EmptySeq(s, so, st) ==
    IF Len(st) > 0
    THEN NoRightParen
    ELSE LET folded == fold_or(PushSeq(s, so)) IN
         IF folded[1] = "Some" THEN Ok(folded[2]) ELSE Ok(AST_Seq(<<>>))

\* Mutant: the check for a missing ')' is left out.
EndResult_NoStackCheck(s, so, st) ==
    LET folded == fold_or(PushSeq(s, so)) IN
    IF folded[1] = "Some" THEN Ok(folded[2]) ELSE Empty

\* What the code after the loop returns.
EndResult(s, so, st) ==
    IF Len(st) > 0
    THEN NoRightParen
    ELSE LET folded == fold_or(PushSeq(s, so)) IN
         IF folded[1] = "Some" THEN Ok(folded[2]) ELSE Empty

\* Mutant: a backslash that escapes nothing is reported at the end of input.
Finish_DanglingEscapeIsError ==
    /\ pc = "scan"
    /\ i = Len(expr)
    /\ Return(IF state = "Escape"
              THEN InvalidEscape(i, "\\")
              ELSE EndResult(seq, seq_or, stack))
    /\ UNCHANGED <<expr, i, seq, seq_or, stack, state>>

\* The code after the loop.  The locals are dropped when parse returns; the
\* model keeps the values they had when the loop ended.
Finish ==
    /\ pc = "scan"
    /\ i = Len(expr)
    /\ Return(EndResult(seq, seq_or, stack))
    /\ UNCHANGED <<expr, i, seq, seq_or, stack, state>>

Next ==
    \/ ReadPlus
    \/ ReadStar
    \/ ReadQuestion
    \/ ReadLeftParen
    \/ ReadRightParen
    \/ ReadBar
    \/ ReadBackslash
    \/ ReadDot
    \/ ReadLiteral
    \/ ReadEscaped
    \/ Finish

Spec == Init /\ [][Next]_vars

---------------------------------------------------------------------------
\* parse as a function of the pattern: the locals as a record, the loop body
\* as a function of the locals and the character read, and the loop as the
\* iteration of the body over the characters.

\* The locals before the loop; res is Pending until the body returns.
Locals0 ==
    [seq |-> <<>>, seq_or |-> <<>>, stack |-> <<>>, state |-> "Char",
     res |-> Pending]

\* One iteration of the loop body on character ch at offset pos.
LoopBody(l, pos, ch) ==
    IF l.state = "Escape"
    THEN LET r == parse_escape(pos, ch) IN
         IF IsOk(r)
         THEN [l EXCEPT !.seq = Append(@, r[2]), !.state = "Char"]
         ELSE [l EXCEPT !.res = r]
    ELSE IF ch \in {"+", "*", "?"}
    THEN LET t == IF ch = "+" THEN "Plus"
                  ELSE IF ch = "*" THEN "Star" ELSE "Question"
             r == parse_dot_plus_star_question(l.seq, t, pos)
         IN IF IsOk(r) THEN [l EXCEPT !.seq = r[2]] ELSE [l EXCEPT !.res = r]
    ELSE IF ch = "("
    THEN [l EXCEPT !.stack = Append(@, <<l.seq, l.seq_or>>),
                   !.seq = <<>>, !.seq_or = <<>>]
    ELSE IF ch = ")"
    THEN IF Len(l.stack) > 0
         THEN [l EXCEPT !.stack = Front(@),
                        !.seq = PushFolded(Last(l.stack)[1],
                                           fold_or(PushSeq(l.seq, l.seq_or))),
                        !.seq_or = Last(l.stack)[2]]
         ELSE [l EXCEPT !.res = InvalidRightParen(pos)]
    ELSE IF ch = "|"
    THEN IF l.seq = <<>>
         THEN [l EXCEPT !.res = NoPrev(pos)]
         ELSE [l EXCEPT !.seq_or = Append(@, AST_Seq(l.seq)), !.seq = <<>>]
    ELSE IF ch = "\\"
    THEN [l EXCEPT !.state = "Escape"]
    ELSE IF ch = "."
    THEN [l EXCEPT !.seq = Append(@, AST_Dot)]
    ELSE [l EXCEPT !.seq = Append(@, AST_Char(ch))]

\* The loop from the k-th character of p on, until the end or a return.
RECURSIVE ScanFrom(_, _, _)
ScanFrom(l, p, k) ==
    IF k > Len(p) \/ l.res # Pending
    THEN l
    ELSE ScanFrom(LoopBody(l, k - 1, p[k]), p, k + 1)

\* The locals when the loop over p ends.
Scan(p) == ScanFrom(Locals0, p, 1)

\* pub fn parse(expr) -> Result<AST, ParseError>
parse(p) ==
    LET l == Scan(p) IN
    IF l.res # Pending THEN l.res ELSE EndResult(l.seq, l.seq_or, l.stack)

---------------------------------------------------------------------------
\* The dispatch of the code generator, src/src/engine/codegen.rs.

\* The match of gen_expr has no arm for the variant.
NoArm == "NoArm"

\* fn gen_expr(&mut self, ast): the method the match on ast hands the node to.
gen_expr(ast) ==
    CASE ast[1] = "Char" -> "gen_char"
      [] ast[1] = "Or" -> "gen_or"
      [] ast[1] = "Plus" -> "gen_plus"
      [] ast[1] = "Star" -> "gen_star"
      [] ast[1] = "Question" -> "gen_question"
      [] ast[1] = "Seq" -> "gen_seq"
      [] OTHER -> NoArm

---------------------------------------------------------------------------
\* The callers of the arithmetic guard.

\* Nothing is parsed while the counters run.
ParseIdle ==
    /\ expr = <<>>
    /\ i = 0
    /\ seq = <<>>
    /\ seq_or = <<>>
    /\ stack = <<>>
    /\ state = "Char"
    /\ pc = "done"
    /\ result = Pending

\* A counter of any value, and a new Generator (pc = 0 by Default).
InitGen ==
    /\ ParseIdle
    /\ dst \in Usize
    /\ src = 0
    /\ ret = Pending
    /\ gen_pc = 0
    /\ gen_ret = Pending

\* safe_add(&mut dst, &s, || Overflow) for any amount s
SafeAddCall ==
    /\ \E s \in Usize :
         LET r == safe_add(dst, s, Overflow) IN
         /\ src' = s
         /\ dst' = r[1]
         /\ ret' = r[2]
    /\ UNCHANGED <<gen_pc, gen_ret>>
    /\ UNCHANGED parse_vars

\* fn inc_pc(&mut self): safe_add(&mut self.pc, &1, || CodeGenError::PCOverFlow)
inc_pc ==
    /\ LET r == safe_add(gen_pc, 1, PCOverFlow) IN
       /\ gen_pc' = r[1]
       /\ gen_ret' = r[2]
    /\ UNCHANGED <<dst, src, ret>>
    /\ UNCHANGED parse_vars

NextGen ==
    \/ SafeAddCall
    \/ inc_pc

SpecGen == InitGen /\ [][NextGen]_vars

---------------------------------------------------------------------------
\* Vocabulary of the properties.

Done == pc = "done"

Pat(p) == Done /\ expr = p

\* The loop is about to read ch in the Normal (ParseState::Char) state.
ReadsNormal(chars) == InLoop /\ state = "Char" /\ c \in chars

\* The step returns r from parse.
Returns(r) == pc' = "done" /\ result' = r

\* A non-empty pattern without any of the eight metacharacters.
IsLiteralPattern(p) == Len(p) > 0 /\ \A k \in 1..Len(p) : p[k] \notin MetaChars

\* The characters of p as Char nodes, in order.
CharNodes(p) == [k \in 1..Len(p) |-> AST_Char(p[k])]

\* Number of unescaped '(' of p[k..] left open, read from the text alone:
\* esc says that p[k] follows an unescaped backslash, d is the number open.
RECURSIVE UnclosedFrom(_, _, _, _)
UnclosedFrom(p, k, esc, d) ==
    IF k > Len(p) THEN d
    ELSE IF esc THEN UnclosedFrom(p, k + 1, FALSE, d)
    ELSE IF p[k] = "\\" THEN UnclosedFrom(p, k + 1, TRUE, d)
    ELSE IF p[k] = "(" THEN UnclosedFrom(p, k + 1, FALSE, d + 1)
    ELSE IF p[k] = ")" /\ d > 0 THEN UnclosedFrom(p, k + 1, FALSE, d - 1)
    ELSE UnclosedFrom(p, k + 1, FALSE, d)

Unclosed(p) == UnclosedFrom(p, 1, FALSE, 0)

\* p consists of parentheses only, every ')' closes a '(' and none is open
\* at the end: d is the number open before p[k].
RECURSIVE BalancedFrom(_, _, _)
BalancedFrom(p, k, d) ==
    IF k > Len(p) THEN d = 0
    ELSE IF p[k] = "(" THEN BalancedFrom(p, k + 1, d + 1)
    ELSE IF p[k] = ")" THEN d > 0 /\ BalancedFrom(p, k + 1, d - 1)
    ELSE FALSE

OnlyEmptyGroups(p) == BalancedFrom(p, 1, 0)

\* Or(A1, Or(A2, ... Or(A(n-1), An))) for n >= 1 alternatives.
RECURSIVE RightChain(_)
RightChain(alts) ==
    IF Len(alts) = 1
    THEN alts[1]
    ELSE AST_Or(alts[1], RightChain(Tail(alts)))

---------------------------------------------------------------------------
\* C1: a non-empty pattern made only of literal characters parses to exactly
\* one Seq node whose children are the Char nodes of the pattern's
\* characters, in input order and as many as the pattern has characters.
C1_LiteralPatternIsSeqOfChars ==
    (Done /\ IsLiteralPattern(expr)) => result = Ok(AST_Seq(CharNodes(expr)))

C1_Witness ==
    /\ Done
    /\ IsLiteralPattern(expr)
    /\ Len(expr) = 3
    /\ expr[1] # expr[2]
    /\ result = Ok(AST_Seq(CharNodes(expr)))

\* C2: reading '+', '*', '?' or '|' at offset i in the Normal state while
\* seq is empty fails with NoPrev(i); so do "|a", "*a", "*" at offset 0 and
\* "a|*" at offset 2, and an operator after only empty groups.
C2_NoPrevOnEmptySeq ==
    /\ [][(ReadsNormal({"+", "*", "?", "|"}) /\ seq = <<>>) => Returns(NoPrev(i))]_vars
    /\ [](Pat(<<"|", "a">>) => result = NoPrev(0))
    /\ [](Pat(<<"*", "a">>) => result = NoPrev(0))
    /\ [](Pat(<<"*">>) => result = NoPrev(0))
    /\ [](Pat(<<"a", "|", "*">>) => result = NoPrev(2))
    /\ [](Pat(<<"(", ")", "(", ")", "?">>) => result = NoPrev(4))

C2_Witness ==
    /\ Done
    /\ expr = <<"a", "(", "|", "b", ")">>
    /\ seq = <<>>
    /\ stack # <<>>
    /\ result = NoPrev(2)

\* C3 as stated: parse("a|") fails with NoPrev(1).
C3_TrailingBarIsNoPrev ==
    Pat(<<"a", "|">>) => result = NoPrev(1)

\* C3, amended: parse("a|") returns the AST Seq[Char(a)]; the bar that has an
\* operand before it and nothing after it raises no error.
C3_TrailingBarAccepted ==
    \A x \in Literals :
        Pat(<<x, "|">>) => result = Ok(AST_Seq(<<AST_Char(x)>>))

C3_Witness ==
    /\ Pat(<<"a", "|">>)
    /\ seq = <<>>
    /\ seq_or = <<AST_Seq(<<AST_Char("a")>>)>>
    /\ IsOk(result)

\* C4: parse returns Empty exactly when the whole pattern was scanned without
\* an error, the stack is empty and neither seq nor seq_or holds a node; the
\* patterns built only from balanced empty groups, "" and "()" among them,
\* return Empty.
C4_EmptyExactlyWhenNoContent ==
    /\ Done =>
         ((result = Empty) <=>
            (i = Len(expr) /\ stack = <<>> /\ seq = <<>> /\ seq_or = <<>>))
    /\ (Done /\ OnlyEmptyGroups(expr)) => result = Empty

C4_Witness ==
    /\ Pat(<<"(", "(", ")", ")", "(", ")">>)
    /\ result = Empty

\* C5: reading an unescaped ')' at offset i in the Normal state while the
\* stack is empty fails with InvalidRightParen(i); parse("a)") fails with
\* InvalidRightParen(1).
C5_InvalidRightParenOnEmptyStack ==
    /\ [][(ReadsNormal({")"}) /\ stack = <<>>) => Returns(InvalidRightParen(i))]_vars
    /\ [](Pat(<<"a", ")">>) => result = InvalidRightParen(1))

C5_Witness ==
    /\ Done
    /\ expr = <<"(", "a", ")", ")">>
    /\ result = InvalidRightParen(3)

\* C6: an AST is returned only with an empty stack; a pattern scanned to its
\* end that leaves an unescaped '(' open fails with NoRightParen, also when
\* nothing was accumulated ("(" is NoRightParen, not Empty).
C6_NoRightParenOnOpenGroup ==
    /\ (Done /\ IsOk(result)) => (stack = <<>> /\ Unclosed(expr) = 0)
    /\ (Done /\ i = Len(expr) /\ Unclosed(expr) > 0) => result = NoRightParen
    /\ (Done /\ i = Len(expr)) => Len(stack) = Unclosed(expr)
    /\ Pat(<<"(", "a">>) => result = NoRightParen
    /\ Pat(<<"(">>) => result = NoRightParen

C6_Witness ==
    /\ Done
    /\ expr = <<"(", "a", "(", ")">>
    /\ Len(stack) = 1
    /\ result = NoRightParen

C6_WitnessNotEmpty ==
    /\ Pat(<<"(">>)
    /\ seq = <<>>
    /\ seq_or = <<>>
    /\ result = NoRightParen

\* C7: fold_or of n >= 2 alternatives is the right-nested chain
\* Or(A1, Or(A2, ... Or(A(n-1), An))) in pattern order, of one alternative
\* that alternative without an Or, and of none nothing; "a|b|c" becomes
\* Or(a, Or(b, c)).  Checked on every list of alternatives the scan builds.
C7_FoldOrIsRightChain ==
    LET alts == PushSeq(seq, seq_or) IN
    /\ Len(alts) = 0 => fold_or(alts) = None
    /\ Len(alts) = 1 => fold_or(alts) = Some(alts[1])
    /\ Len(alts) >= 2 =>
         fold_or(alts) = Some(AST_Or(alts[1], RightChain(Tail(alts))))
    /\ (Done /\ IsOk(result)) => result = Ok(RightChain(alts))
    /\ Pat(<<"a", "|", "b", "|", "c">>) =>
         result = Ok(AST_Or(AST_Seq(<<AST_Char("a")>>),
                            AST_Or(AST_Seq(<<AST_Char("b")>>),
                                   AST_Seq(<<AST_Char("c")>>))))

C7_Witness ==
    /\ Pat(<<"a", "|", "b", "|", "c", "|", "d">>)
    /\ Len(seq_or) = 3
    /\ result = Ok(AST_Or(AST_Seq(<<AST_Char("a")>>),
                          AST_Or(AST_Seq(<<AST_Char("b")>>),
                                 AST_Or(AST_Seq(<<AST_Char("c")>>),
                                        AST_Seq(<<AST_Char("d")>>)))))

\* C8: a backslash followed by one of the eight metacharacters m appends
\* Char(m) to seq and returns to the Normal state, without error and without
\* touching seq_or or the stack; parse("\*") is Seq[Char('*')].
C8_EscapedMetaIsLiteral ==
    /\ [][(InLoop /\ state = "Escape" /\ c \in MetaChars) =>
            /\ seq' = Append(seq, AST_Char(c))
            /\ state' = "Char"
            /\ i' = i + 1
            /\ UNCHANGED <<seq_or, stack, pc, result>>]_vars
    /\ [](Pat(<<"\\", "*">>) => result = Ok(AST_Seq(<<AST_Char("*")>>)))

C8_Witness ==
    /\ Pat(<<"\\", "(", "\\", "|">>)
    /\ seq_or = <<>>
    /\ stack = <<>>
    /\ result = Ok(AST_Seq(<<AST_Char("("), AST_Char("|")>>))

\* C9: an unescaped backslash followed by a character c that is none of the
\* eight metacharacters fails with InvalidEscape(i, c), i being the offset
\* of c itself, one past the offset of the backslash.
C9_InvalidEscapeAtEscapedChar ==
    /\ [][(InLoop /\ state = "Escape" /\ c \notin MetaChars) =>
            /\ Returns(InvalidEscape(i, expr[i + 1]))
            /\ i > 0
            /\ expr[i] = "\\"]_vars
    /\ [](Pat(<<"\\", "a">>) => result = InvalidEscape(1, "a"))
    /\ [](Pat(<<"a", "b", "\\", "b">>) => result = InvalidEscape(3, "b"))

C9_Witness ==
    /\ Pat(<<"a", "\\", "\\", "\\", "b">>)
    /\ state = "Escape"
    /\ result = InvalidEscape(4, "b")

\* C10 as stated: parse("()*") returns an AST.
C10_EmptyGroupStarAccepted ==
    Pat(<<"(", ")", "*">>) => IsOk(result)

\* C10, amended: parse("()*") returns no AST; the empty group leaves no node
\* for '*' to apply to and parse fails with NoPrev(2).
C10_EmptyGroupStarIsNoPrev ==
    Pat(<<"(", ")", "*">>) => result = NoPrev(2)

C10_Witness ==
    /\ Pat(<<"(", ")", "*">>)
    /\ seq = <<>>
    /\ stack = <<>>
    /\ IsErr(result)


\* C11: safe_add never wraps.  A call with amount src leaves dst + src in dst
\* and returns Ok when the sum is representable, and otherwise returns the
\* caller's error with dst unchanged; inc_pc advances pc by exactly 1 and
\* returns Ok, or returns PCOverFlow with pc unchanged, and pc never
\* decreases.
C11_SafeAddNeverWraps ==
    /\ [][IF dst + src' <= UsizeMax
          THEN dst' = dst + src' /\ ret' = Ok(<<>>)
          ELSE dst' = dst /\ ret' = Err(Overflow)]_<<dst, src, ret>>
    /\ [][/\ \/ gen_pc' = gen_pc + 1 /\ gen_ret' = Ok(<<>>)
             \/ gen_pc' = gen_pc /\ gen_ret' = Err(PCOverFlow)
          /\ gen_pc' >= gen_pc
          /\ gen_pc' <= UsizeMax]_<<gen_pc, gen_ret>>
    /\ [](dst \in Usize /\ gen_pc \in Usize)

C11_Witness ==
    /\ ret = Err(Overflow)
    /\ dst > 0
    /\ dst + src > UsizeMax
    /\ gen_pc = UsizeMax
    /\ gen_ret = Err(PCOverFlow)


\* A pattern without its k-th and (k+1)-th character.
Without2(p, k) == SubSeq(p, 1, k - 1) \o SubSeq(p, k + 2, Len(p))

\* r with its offset moved by 2 when it carries an offset of at least k.
Shifted(r, k) ==
    IF IsErr(r) /\ Len(r) >= 3 /\ r[3] >= k
    THEN [r EXCEPT ![3] = @ + 2]
    ELSE r

\* Scanning p raises no error and ends in the Normal state.
ScansToNormal(p) == Scan(p).res = Pending /\ Scan(p).state = "Char"

\* C12: an empty group is a no-op.  Whenever "()" stands in the pattern after
\* a prefix p that scans without error to the Normal state, parse returns
\* what it returns for the pattern without the "()", an error offset at or
\* after the insertion point moved by 2; and the locals after the "()" are
\* the locals after p.
C12_EmptyGroupIsNoOp ==
    \A k \in 1..(Len(expr) - 1) :
        (expr[k] = "(" /\ expr[k + 1] = ")" /\ ScansToNormal(SubSeq(expr, 1, k - 1))) =>
            /\ Done => result = Shifted(parse(Without2(expr, k)), k - 1)
            /\ (pc = "scan" /\ i = k + 1) =>
                   LET before == Scan(SubSeq(expr, 1, k - 1)) IN
                   /\ seq = before.seq
                   /\ seq_or = before.seq_or
                   /\ stack = before.stack
                   /\ state = "Char"

C12_Witness ==
    /\ Pat(<<"a", "(", ")", "|", "*">>)
    /\ result = NoPrev(4)
    /\ parse(<<"a", "|", "*">>) = NoPrev(2)

C12_WitnessAst ==
    /\ Pat(<<"(", "a", "(", ")", ")">>)
    /\ result = Ok(AST_Seq(<<AST_Seq(<<AST_Char("a")>>)>>))


\* The nodes directly below an AST node.
Children(ast) ==
    CASE ast[1] = "Seq" -> ast[2]
      [] ast[1] = "Or" -> <<ast[2], ast[3]>>
      [] ast[1] \in {"Plus", "Star", "Question"} -> <<ast[2]>>
      [] OTHER -> <<>>

\* gen_expr has an arm for ast and for every node below it.
RECURSIVE HasArmForAll(_)
HasArmForAll(ast) ==
    /\ gen_expr(ast) # NoArm
    /\ \A k \in 1..Len(Children(ast)) : HasArmForAll(Children(ast)[k])

\* C13: gen_expr has a case for every AST variant the parser can produce, Dot
\* among them: every node of every AST parse returns is dispatched.
C13_GenExprCoversParserOutput ==
    (Done /\ IsOk(result)) => HasArmForAll(result[2])


\* NoPrev, InvalidRightParen or InvalidEscape: an error that carries an offset.
IsPositionTagged(r) == IsErr(r) /\ Len(r) >= 3

\* C14: parse errors are final and determined by the shortest failing prefix.
\* A position-tagged error is raised by the character at its offset i, after
\* an error-free scan of the i characters before it; it is what parse returns
\* for that prefix alone, whatever follows, and nothing after offset i is
\* processed.  NoRightParen and Empty are returned only after the whole
\* pattern was scanned without a position-tagged error; "a)(" fails with
\* InvalidRightParen(1).
C14_ErrorsAreFinal ==
    /\ Done => result = parse(expr)
    /\ (Done /\ IsPositionTagged(result)) =>
         LET before == Scan(SubSeq(expr, 1, i)) IN
         /\ i < Len(expr)
         /\ result[3] = i
         /\ result = parse(SubSeq(expr, 1, i + 1))
         /\ before.res = Pending
         /\ <<seq, seq_or, stack, state>> =
                <<before.seq, before.seq_or, before.stack, before.state>>
    /\ (Done /\ ~IsPositionTagged(result)) =>
         /\ i = Len(expr)
         /\ Scan(expr).res = Pending
    /\ Pat(<<"a", ")", "(">>) => result = InvalidRightParen(1)

C14_Witness ==
    /\ Pat(<<"a", ")", "(">>)
    /\ i = 1
    /\ stack = <<>>
    /\ result = InvalidRightParen(1)


\* The repetition node the operator character ch builds over e.
OpNode(ch, e) ==
    IF ch = "+" THEN AST_Plus(e)
    ELSE IF ch = "*" THEN AST_Star(e) ELSE AST_Question(e)

\* C15: '+', '*' or '?' read in the Normal state with a non-empty seq
\* replaces only the last element of seq by the Plus/Star/Question node over
\* that element; the length of seq, its earlier elements, seq_or and the
\* stack stay as they are.  "ab*" is Seq[Char(a), Star(Char(b))], "(ab)*"
\* stars the whole group and "a**" is Star(Star(Char(a))).
C15_PostfixWrapsLastOnly ==
    /\ [][(ReadsNormal({"+", "*", "?"}) /\ seq # <<>>) =>
            /\ Len(seq') = Len(seq)
            /\ seq' = [seq EXCEPT ![Len(seq)] = OpNode(c, seq[Len(seq)])]
            /\ UNCHANGED <<seq_or, stack, state, pc, result>>]_vars
    /\ [](Pat(<<"a", "b", "*">>) =>
            result = Ok(AST_Seq(<<AST_Char("a"), AST_Star(AST_Char("b"))>>)))
    /\ [](Pat(<<"(", "a", "b", ")", "*">>) =>
            result = Ok(AST_Seq(<<AST_Star(AST_Seq(<<AST_Char("a"), AST_Char("b")>>))>>)))
    /\ [](Pat(<<"a", "*", "*">>) =>
            result = Ok(AST_Seq(<<AST_Star(AST_Star(AST_Char("a")))>>)))

C15_Witness ==
    /\ Pat(<<"a", "|", "b", "a", "?">>)
    /\ seq = <<AST_Char("b"), AST_Question(AST_Char("a"))>>
    /\ seq_or = <<AST_Seq(<<AST_Char("a")>>)>>
    /\ IsOk(result)

\* C16: group nesting preserves the enclosing context.  '(' pushes the
\* current (seq, seq_or) and empties both; ')' pops the innermost saved pair
\* and restores its seq_or unchanged and its seq with the folded content of
\* the group appended, or unchanged for an empty group; no other step
\* touches the stack.  "a(b|c)d" is Seq[Char(a), Or(Seq[b], Seq[c]), Char(d)].
C16_GroupPreservesContext ==
    /\ [][ReadsNormal({"("}) =>
            /\ stack' = Append(stack, <<seq, seq_or>>)
            /\ seq' = <<>>
            /\ seq_or' = <<>>]_vars
    /\ [][(ReadsNormal({")"}) /\ stack # <<>>) =>
            LET saved == stack[Len(stack)]
                alts == PushSeq(seq, seq_or)
            IN /\ stack' = SubSeq(stack, 1, Len(stack) - 1)
               /\ seq_or' = saved[2]
               /\ seq' = IF alts = <<>>
                         THEN saved[1]
                         ELSE Append(saved[1], RightChain(alts))]_vars
    /\ [][~ReadsNormal({"(", ")"}) => stack' = stack]_vars
    /\ [](Pat(<<"a", "(", "b", "|", "c", ")", "d">>) =>
            result = Ok(AST_Seq(<<AST_Char("a"),
                                  AST_Or(AST_Seq(<<AST_Char("b")>>),
                                         AST_Seq(<<AST_Char("c")>>)),
                                  AST_Char("d")>>)))

C16_Witness ==
    /\ Pat(<<"a", "(", "b", "|", "c", ")", "d">>)
    /\ seq_or = <<>>
    /\ stack = <<>>
    /\ Len(seq) = 3
    /\ IsOk(result)


\* No Seq below ast is empty and both sides of every Or are a Seq or an Or.
RECURSIVE WellShaped(_)
WellShaped(ast) ==
    /\ ast[1] = "Seq" => Len(ast[2]) > 0
    /\ ast[1] = "Or" =>
         /\ ast[2][1] \in {"Seq", "Or"}
         /\ ast[3][1] \in {"Seq", "Or"}
    /\ \A k \in 1..Len(Children(ast)) : WellShaped(Children(ast)[k])

\* C17: an AST returned by parse has no empty Seq, its root is a Seq or an
\* Or, and both children of every Or are a Seq or an Or.
C17_NoEmptySeq ==
    (Done /\ IsOk(result)) =>
        /\ result[2][1] \in {"Seq", "Or"}
        /\ WellShaped(result[2])

C17_Witness ==
    /\ Pat(<<"(", "a", "|", "b", "|", "c", ")">>)
    /\ result = Ok(AST_Seq(<<AST_Or(AST_Seq(<<AST_Char("a")>>),
                                    AST_Or(AST_Seq(<<AST_Char("b")>>),
                                           AST_Seq(<<AST_Char("c")>>)))>>))

\* C18: a pattern that ends with an unescaped backslash raises no escape
\* error.  After a prefix p that scans without error to the Normal state the
\* backslash only enters the Escape state, and parse returns what it returns
\* for p: "a\" is Seq[Char(a)] and "\" is Empty.
C18_DanglingBackslashDropped ==
    /\ (Done /\ expr # <<>> /\ expr[Len(expr)] = "\\"
             /\ ScansToNormal(SubSeq(expr, 1, Len(expr) - 1))) =>
         /\ state = "Escape"
         /\ i = Len(expr)
         /\ ~IsPositionTagged(result)
         /\ result = parse(SubSeq(expr, 1, Len(expr) - 1))
    /\ Pat(<<"a", "\\">>) => result = Ok(AST_Seq(<<AST_Char("a")>>))
    /\ Pat(<<"\\">>) => result = Empty

C18_Witness ==
    /\ Pat(<<"a", "\\", "\\", "b", "\\">>)
    /\ state = "Escape"
    /\ result = Ok(AST_Seq(<<AST_Char("a"), AST_Char("\\"), AST_Char("b")>>))

===========================================================================
